---- MODULE Spec2Model ----
(***************************************************************************)
(* Model of the ingest-and-classify pipeline of app/app.py: the handlers   *)
(* receive_sensor_data (POST /sensor_data) and get_data (GET /data), the   *)
(* classifier wrapper detect_anomaly and the start-up load_model, over the *)
(* process-wide state current_data, anomalies, model and the three         *)
(* Prometheus metrics.                                                     *)
(*                                                                         *)
(* A request is served by a thread.  pc[t] is the position of thread t in  *)
(* receive_sensor_data and frame[t] holds the locals of its call.  Every   *)
(* action is one access of the handler to the shared state, so that Spec   *)
(* interleaves concurrent requests the way a threaded WSGI server does,    *)
(* while SpecSeq serves one request at a time, each to completion, and     *)
(* records what each call saw and did in history variables.                *)
(***************************************************************************)
EXTENDS Integers, Sequences, FiniteSets, TLC

\* app.py:55 sets MAX_DATA_POINTS = 100; the model scales the capacity down.
MAX_DATA_POINTS == 2

\* Number of POST /sensor_data requests a behaviour may issue.
MaxCalls == 3

\* Number of GET /data requests a behaviour may issue.
MaxReads == 1

\* Largest value of the millisecond clock read by time.time() * 1000.
MaxClock == 2

\* Server threads that may run receive_sensor_data at the same time.
Threads == {"t1", "t2"}

\* The one thread of the sequential specification.
SeqThread == "t1"

required_fields == {"temperature", "humidity", "pressure", "vibration"}

\* request.json: a JSON object (mapping) or a JSON array (not a mapping)
\* whose keys / elements are `keys`.  {} and [] are the payloads with no keys.
KeySets == {{}, required_fields} \cup {required_fields \ {f} : f \in required_fields}

Payloads == [mapping : BOOLEAN, keys : KeySets]

\* What model.predict(df) does: returns [-1] or [1], or raises.
PredictOutcomes ==
    { [raises |-> FALSE, value |-> -1],
      [raises |-> FALSE, value |-> 1],
      [raises |-> TRUE,  value |-> 0] }

\* No prediction was asked of the model.
NoPrediction == [raises |-> FALSE, value |-> 0]

\* The locals of a call that has not begun.
NoFrame ==
    [ data       |-> [mapping |-> TRUE, keys |-> {}],
      timestamp  |-> 0,
      prediction |-> NoPrediction,
      is_anomaly |-> FALSE,
      status     |-> "",
      numpy      |-> FALSE,
      arg        |-> 0 ]

\* Positions of a thread that is not inside receive_sensor_data: it has served
\* no request yet, or its last call returned 200, returned 400, or raised.
Free == {"idle", "returned_200", "returned_400", "raised"}

VARIABLES
    model,                 \* "None" or "loaded"
    current_data,          \* sequence of readings, oldest first
    anomalies,             \* sequence of readings, detection order
    DATA_POINTS_RECEIVED,  \* Counter
    ANOMALIES_DETECTED,    \* Counter
    ACTIVE_ANOMALIES,      \* Gauge
    clock,                 \* last value time.time() * 1000 returned
    pc,                    \* pc[t]: position of thread t in receive_sensor_data
    frame,                 \* frame[t]: locals of thread t's call
    responses,             \* bodies of the responses of get_data, in order
    pre,                   \* history: shared state when the current call began
    cur,                   \* history: locals of the call that returned last
    last,                  \* history: the call that returned before it
    accepted_log,          \* history: every reading appended to current_data
    settled                \* history: settled[i] iff an ingest with another
                           \* timestamp was recorded after anomalies[i]

program == << model, current_data, anomalies, DATA_POINTS_RECEIVED,
              ANOMALIES_DETECTED, ACTIVE_ANOMALIES, clock, pc, frame, responses >>

history == << pre, cur, last, accepted_log, settled >>

vars == << program, history >>

----------------------------------------------------------------------------
\* load_model: the model is loaded iff model.pkl exists and unpickles.
load_model(exists, unpickles) ==
    IF exists /\ unpickles THEN "loaded" ELSE "None"

\* A classifier without the `model is None` guard.
detect_anomaly_unguarded(m, prediction) ==
    IF prediction.raises
    THEN [is_anomaly |-> FALSE, status |-> "Prediction error", numpy |-> FALSE]
    ELSE [is_anomaly |-> (prediction.value = -1),
          status     |-> IF prediction.value = -1 THEN "Detected" ELSE "Normal",
          numpy      |-> TRUE]

\* A classifier that takes the inlier verdict 1 for the anomaly.
detect_anomaly_inverted(m, prediction) ==
    IF m = "None"
    THEN [is_anomaly |-> FALSE, status |-> "Model not loaded", numpy |-> FALSE]
    ELSE IF prediction.raises
    THEN [is_anomaly |-> FALSE, status |-> "Prediction error", numpy |-> FALSE]
    ELSE [is_anomaly |-> (prediction.value = 1),
          status     |-> IF prediction.value = 1 THEN "Detected" ELSE "Normal",
          numpy      |-> TRUE]

\* detect_anomaly: (is_anomaly, status); numpy tells whether is_anomaly is the
\* numpy.bool_ that (prediction[0] == -1) yields rather than a Python bool.
detect_anomaly(m, prediction) ==
    IF m = "None"
    THEN [is_anomaly |-> FALSE, status |-> "Model not loaded", numpy |-> FALSE]
    ELSE IF prediction.raises
    THEN [is_anomaly |-> FALSE, status |-> "Prediction error", numpy |-> FALSE]
    ELSE [is_anomaly |-> (prediction.value = -1),
          status     |-> IF prediction.value = -1 THEN "Detected" ELSE "Normal",
          numpy      |-> TRUE]

\* `if not data`: an empty object or array is falsy.
NoData(data) == data.keys = {}

\* A validation that forgets the last required field.
HasRequiredFields_but_vibration(data) ==
    \A field \in required_fields \ {"vibration"} : field \in data.keys

\* `all(field in data for field in required_fields)`: key membership for an
\* object, element membership for an array.
HasRequiredFields(data) == \A field \in required_fields : field \in data.keys

\* The dict stored in current_data and anomalies.
Reading(f) ==
    [timestamp |-> f.timestamp, is_anomaly |-> f.is_anomaly, status |-> f.status]

\* A counter that counts a request twice.
inc_twice(counter) == counter + 2

\* Counter.inc() adds one.
inc(counter) == counter + 1

\* An eviction that drops the newest reading instead of the oldest.
pop0_newest(s) == SubSeq(s, 1, Len(s) - 1)

\* list.pop(0) removes the first element.
pop0(s) == SubSeq(s, 2, Len(s))

\* A removal of the oldest active anomaly instead of the most recent.
pop_oldest(s) == SubSeq(s, 2, Len(s))

\* list.pop() removes the last element.
pop(s) == SubSeq(s, 1, Len(s) - 1)

\* The call of thread t ends: it returned 200 or 400, or an exception escaped.
Return(t, outcome) ==
    /\ pc' = [pc EXCEPT ![t] = outcome]
    /\ frame' = [frame EXCEPT ![t] = NoFrame]

Goto(t, f, label) ==
    /\ pc' = [pc EXCEPT ![t] = label]
    /\ frame' = [frame EXCEPT ![t] = f]

----------------------------------------------------------------------------
Init ==
    /\ \E exists \in BOOLEAN, unpickles \in BOOLEAN :
           model = load_model(exists, unpickles)
    /\ current_data = <<>>
    /\ anomalies = <<>>
    /\ DATA_POINTS_RECEIVED = 0
    /\ ANOMALIES_DETECTED = 0
    /\ ACTIVE_ANOMALIES = 0
    /\ clock = 0
    /\ pc = [t \in Threads |-> "idle"]
    /\ frame = [t \in Threads |-> NoFrame]
    /\ responses = <<>>
    /\ pre = [current_data |-> <<>>, anomalies |-> <<>>,
              DATA_POINTS_RECEIVED |-> 0, ANOMALIES_DETECTED |-> 0,
              ACTIVE_ANOMALIES |-> 0, accepted |-> 0]
    /\ cur = NoFrame
    /\ last = [outcome |-> "idle", recorded |-> FALSE, frame |-> NoFrame,
               anomalies_before |-> <<>>, gauge_before |-> 0]
    /\ accepted_log = <<>>
    /\ settled = <<>>

\* Lines 301-303: DATA_POINTS_RECEIVED.inc(); data = request.json.
Receive(t, data) ==
    /\ pc[t] \in Free
    /\ DATA_POINTS_RECEIVED < MaxCalls
    /\ DATA_POINTS_RECEIVED' = inc(DATA_POINTS_RECEIVED)
    /\ Goto(t, [NoFrame EXCEPT !.data = data], "validate")
    /\ UNCHANGED << model, current_data, anomalies, ANOMALIES_DETECTED,
                    ACTIVE_ANOMALIES, clock, responses >>

\* Lines 304-310: reject an empty payload or one without the required fields.
Validate(t) ==
    /\ pc[t] = "validate"
    /\ IF NoData(frame[t].data) \/ ~HasRequiredFields(frame[t].data)
       THEN Return(t, "returned_400")
       ELSE Goto(t, frame[t], "timestamp")
    /\ UNCHANGED << model, current_data, anomalies, DATA_POINTS_RECEIVED,
                    ANOMALIES_DETECTED, ACTIVE_ANOMALIES, clock, responses >>

\* Line 313: data['timestamp'] = time.time() * 1000.  Item assignment with a
\* string index raises TypeError when data is not a mapping.
Timestamp(t) ==
    /\ pc[t] = "timestamp"
    /\ \E now \in clock .. (IF clock < MaxClock THEN clock + 1 ELSE clock) :
         /\ clock' = now
         /\ IF frame[t].data.mapping
            THEN Goto(t, [frame[t] EXCEPT !.timestamp = now], "classify")
            ELSE Return(t, "raised")
    /\ UNCHANGED << model, current_data, anomalies, DATA_POINTS_RECEIVED,
                    ANOMALIES_DETECTED, ACTIVE_ANOMALIES, responses >>

\* Lines 316-318: is_anomaly, status_message = detect_anomaly(data).
Classify(t) ==
    /\ pc[t] = "classify"
    /\ \E prediction \in PredictOutcomes :
         LET r == detect_anomaly(model, prediction)
         IN  Goto(t, [frame[t] EXCEPT !.prediction =
                                          IF model = "None" THEN NoPrediction
                                          ELSE prediction,
                                      !.is_anomaly = r.is_anomaly,
                                      !.status = r.status,
                                      !.numpy = r.numpy], "append")
    /\ UNCHANGED << model, current_data, anomalies, DATA_POINTS_RECEIVED,
                    ANOMALIES_DETECTED, ACTIVE_ANOMALIES, clock, responses >>

\* Line 321: current_data.append(data).
AppendData(t) ==
    /\ pc[t] = "append"
    /\ current_data' = Append(current_data, Reading(frame[t]))
    /\ Goto(t, frame[t], "check_len")
    /\ UNCHANGED << model, anomalies, DATA_POINTS_RECEIVED, ANOMALIES_DETECTED,
                    ACTIVE_ANOMALIES, clock, responses >>

\* Line 322: if len(current_data) > MAX_DATA_POINTS.  Line 326: if is_anomaly.
CheckLen(t) ==
    /\ pc[t] = "check_len"
    /\ Goto(t, frame[t],
            IF Len(current_data) > MAX_DATA_POINTS THEN "pop_oldest"
            ELSE IF frame[t].is_anomaly THEN "anomaly_append"
            ELSE "flap_len")
    /\ UNCHANGED << model, current_data, anomalies, DATA_POINTS_RECEIVED,
                    ANOMALIES_DETECTED, ACTIVE_ANOMALIES, clock, responses >>

\* Line 323: current_data.pop(0).  Line 326: if is_anomaly.
PopOldest(t) ==
    /\ pc[t] = "pop_oldest"
    /\ current_data' = pop0(current_data)
    /\ Goto(t, frame[t],
            IF frame[t].is_anomaly THEN "anomaly_append" ELSE "flap_len")
    /\ UNCHANGED << model, anomalies, DATA_POINTS_RECEIVED, ANOMALIES_DETECTED,
                    ACTIVE_ANOMALIES, clock, responses >>

\* Line 327: anomalies.append(data).
AnomalyAppend(t) ==
    /\ pc[t] = "anomaly_append"
    /\ anomalies' = Append(anomalies, Reading(frame[t]))
    /\ Goto(t, frame[t], "anomaly_inc")
    /\ UNCHANGED << model, current_data, DATA_POINTS_RECEIVED, ANOMALIES_DETECTED,
                    ACTIVE_ANOMALIES, clock, responses >>

\* Line 328: ANOMALIES_DETECTED.inc().
AnomalyInc(t) ==
    /\ pc[t] = "anomaly_inc"
    /\ ANOMALIES_DETECTED' = inc(ANOMALIES_DETECTED)
    /\ Goto(t, frame[t], "gauge_len")
    /\ UNCHANGED << model, current_data, anomalies, DATA_POINTS_RECEIVED,
                    ACTIVE_ANOMALIES, clock, responses >>

\* Line 334, left operand: len(anomalies) > 0.
FlapLen(t) ==
    /\ pc[t] = "flap_len"
    /\ Goto(t, frame[t], IF Len(anomalies) > 0 THEN "flap_last" ELSE "gauge_len")
    /\ UNCHANGED << model, current_data, anomalies, DATA_POINTS_RECEIVED,
                    ANOMALIES_DETECTED, ACTIVE_ANOMALIES, clock, responses >>

\* A flap-clearing test that matches any later reading instead of the same instant.
SameInstant_earlier(anomaly, f) == anomaly.timestamp < f.timestamp

\* The flap-clearing test: anomaly['timestamp'] == data['timestamp'].
SameInstant(anomaly, f) == anomaly.timestamp = f.timestamp

\* Line 334, right operand: anomalies[-1]['timestamp'] == data['timestamp'].
\* anomalies[-1] raises IndexError on an empty list.
FlapLast(t) ==
    /\ pc[t] = "flap_last"
    /\ IF anomalies = <<>>
       THEN Return(t, "raised")
       ELSE Goto(t, frame[t],
                 IF SameInstant(anomalies[Len(anomalies)], frame[t])
                 THEN "flap_pop" ELSE "gauge_len")
    /\ UNCHANGED << model, current_data, anomalies, DATA_POINTS_RECEIVED,
                    ANOMALIES_DETECTED, ACTIVE_ANOMALIES, clock, responses >>

\* Line 335: anomalies.pop(); raises IndexError on an empty list.
FlapPop(t) ==
    /\ pc[t] = "flap_pop"
    /\ IF anomalies = <<>>
       THEN /\ Return(t, "raised")
            /\ UNCHANGED anomalies
       ELSE /\ anomalies' = pop(anomalies)
            /\ Goto(t, frame[t], "gauge_len")
    /\ UNCHANGED << model, current_data, DATA_POINTS_RECEIVED, ANOMALIES_DETECTED,
                    ACTIVE_ANOMALIES, clock, responses >>

\* Lines 329 and 336, the argument: len(anomalies).
GaugeLen(t) ==
    /\ pc[t] = "gauge_len"
    /\ Goto(t, [frame[t] EXCEPT !.arg = Len(anomalies)], "gauge_set")
    /\ UNCHANGED << model, current_data, anomalies, DATA_POINTS_RECEIVED,
                    ANOMALIES_DETECTED, ACTIVE_ANOMALIES, clock, responses >>

\* Lines 329 and 336, the call: ACTIVE_ANOMALIES.set(<argument>).
GaugeSet(t) ==
    /\ pc[t] = "gauge_set"
    /\ ACTIVE_ANOMALIES' = frame[t].arg
    /\ Goto(t, frame[t], "respond")
    /\ UNCHANGED << model, current_data, anomalies, DATA_POINTS_RECEIVED,
                    ANOMALIES_DETECTED, clock, responses >>

\* Line 338: return jsonify({... "is_anomaly": is_anomaly}).  A Python bool
\* serialises; whether the json provider in use serialises a numpy.bool_ is
\* not fixed by the source, so both results are possible for it.
Respond(t) ==
    /\ pc[t] = "respond"
    /\ \/ Return(t, "returned_200")
       \/ frame[t].numpy /\ Return(t, "raised")
    /\ UNCHANGED << model, current_data, anomalies, DATA_POINTS_RECEIVED,
                    ANOMALIES_DETECTED, ACTIVE_ANOMALIES, clock, responses >>

\* get_data, lines 284-292: the response carries both lists as they are.
get_data ==
    /\ Len(responses) < MaxReads
    /\ responses' = Append(responses,
                           [recent_data |-> current_data, anomalies |-> anomalies])
    /\ UNCHANGED << model, current_data, anomalies, DATA_POINTS_RECEIVED,
                    ANOMALIES_DETECTED, ACTIVE_ANOMALIES, clock, pc, frame >>

\* No call of receive_sensor_data is in progress.
Idle == \A t \in Threads : pc[t] \in Free

\* Requests served by concurrent threads; one step of one request.
Next ==
    \/ \E t \in Threads, data \in Payloads :
           Receive(t, data) /\ UNCHANGED history
    \/ \E t \in Threads : Validate(t) /\ UNCHANGED history
    \/ \E t \in Threads : Timestamp(t) /\ UNCHANGED history
    \/ \E t \in Threads : Classify(t) /\ UNCHANGED history
    \/ \E t \in Threads : AppendData(t) /\ UNCHANGED history
    \/ \E t \in Threads : CheckLen(t) /\ UNCHANGED history
    \/ \E t \in Threads : PopOldest(t) /\ UNCHANGED history
    \/ \E t \in Threads : AnomalyAppend(t) /\ UNCHANGED history
    \/ \E t \in Threads : AnomalyInc(t) /\ UNCHANGED history
    \/ \E t \in Threads : FlapLen(t) /\ UNCHANGED history
    \/ \E t \in Threads : FlapLast(t) /\ UNCHANGED history
    \/ \E t \in Threads : FlapPop(t) /\ UNCHANGED history
    \/ \E t \in Threads : GaugeLen(t) /\ UNCHANGED history
    \/ \E t \in Threads : GaugeSet(t) /\ UNCHANGED history
    \/ \E t \in Threads : Respond(t) /\ UNCHANGED history
    \/ get_data /\ UNCHANGED history

Spec == Init /\ [][Next]_vars

\* History of thread t's calls: the shared state at the call's entry, the
\* locals it ended with, the call before it, and the readings it appended.
Observe(t) ==
    /\ pre' = IF pc[t] \in Free
              THEN [current_data |-> current_data, anomalies |-> anomalies,
                    DATA_POINTS_RECEIVED |-> DATA_POINTS_RECEIVED,
                    ANOMALIES_DETECTED |-> ANOMALIES_DETECTED,
                    ACTIVE_ANOMALIES |-> ACTIVE_ANOMALIES,
                    accepted |-> Len(accepted_log)]
              ELSE pre
    /\ last' = IF pc[t] \in Free
               THEN [outcome |-> pc[t],
                     recorded |-> Len(accepted_log) > pre.accepted,
                     frame |-> cur,
                     anomalies_before |-> pre.anomalies,
                     gauge_before |-> pre.ACTIVE_ANOMALIES]
               ELSE last
    /\ cur' = IF pc'[t] \in Free THEN frame[t] ELSE cur
    /\ accepted_log' = IF pc[t] = "append"
                       THEN Append(accepted_log, current_data'[Len(current_data')])
                       ELSE accepted_log
    /\ settled' = IF pc[t] = "append"
                  THEN [i \in 1..Len(settled) |->
                          \/ settled[i]
                          \/ anomalies[i].timestamp # frame[t].timestamp]
                  ELSE IF Len(anomalies') > Len(anomalies)
                  THEN Append(settled, FALSE)
                  ELSE IF Len(anomalies') < Len(anomalies)
                  THEN SubSeq(settled, 1, Len(anomalies'))
                  ELSE settled

\* Requests served one at a time, each to completion.
NextSeq ==
    \/ \E data \in Payloads :
           Receive(SeqThread, data) /\ Observe(SeqThread)
    \/ Validate(SeqThread) /\ Observe(SeqThread)
    \/ Timestamp(SeqThread) /\ Observe(SeqThread)
    \/ Classify(SeqThread) /\ Observe(SeqThread)
    \/ AppendData(SeqThread) /\ Observe(SeqThread)
    \/ CheckLen(SeqThread) /\ Observe(SeqThread)
    \/ PopOldest(SeqThread) /\ Observe(SeqThread)
    \/ AnomalyAppend(SeqThread) /\ Observe(SeqThread)
    \/ AnomalyInc(SeqThread) /\ Observe(SeqThread)
    \/ FlapLen(SeqThread) /\ Observe(SeqThread)
    \/ FlapLast(SeqThread) /\ Observe(SeqThread)
    \/ FlapPop(SeqThread) /\ Observe(SeqThread)
    \/ GaugeLen(SeqThread) /\ Observe(SeqThread)
    \/ GaugeSet(SeqThread) /\ Observe(SeqThread)
    \/ Respond(SeqThread) /\ Observe(SeqThread)
    \/ Idle /\ get_data /\ UNCHANGED history

SpecSeq == Init /\ [][NextSeq]_vars

----------------------------------------------------------------------------
\* The sequential thread's call has ended; pre, cur and the shared state are
\* the state before the call, the call's locals and the state after it.
Returned == pc[SeqThread] \in {"returned_200", "returned_400", "raised"}

\* The call that ended appended its reading to current_data.
Recorded == Len(accepted_log) > pre.accepted

\* The last n elements of s (all of s when it has fewer).
LastN(s, n) == IF Len(s) <= n THEN s ELSE SubSeq(s, Len(s) - n + 1, Len(s))

\* C1: between sequential ingests the history buffer holds at most
\* MAX_DATA_POINTS readings, and once more than MAX_DATA_POINTS readings were
\* accepted it is exactly the MAX_DATA_POINTS most recently accepted ones,
\* oldest first, in arrival order.
C1_BufferBound ==
    Idle => /\ Len(current_data) <= MAX_DATA_POINTS
            /\ Len(accepted_log) > MAX_DATA_POINTS =>
                 /\ Len(current_data) = MAX_DATA_POINTS
                 /\ current_data = LastN(accepted_log, MAX_DATA_POINTS)

\* C1 witness: more readings were accepted than the buffer holds, and the
\* evicted reading differs from the ones kept.
C1_Witness ==
    /\ Idle
    /\ Len(accepted_log) > MAX_DATA_POINTS
    /\ \A i \in 1..Len(current_data) : current_data[i] # accepted_log[1]

\* A payload the validation is to reject: empty, or without a required field.
Invalid(data) == data.keys = {} \/ \E f \in required_fields : f \notin data.keys

\* C2: an ingest of an empty payload, or of one missing any required field, is
\* rejected and changes nothing but the readings-received counter.
C2_RejectionLeavesState ==
    Returned /\ Invalid(cur.data) =>
        /\ pc[SeqThread] = "returned_400"
        /\ current_data = pre.current_data
        /\ anomalies = pre.anomalies
        /\ ANOMALIES_DETECTED = pre.ANOMALIES_DETECTED
        /\ ACTIVE_ANOMALIES = pre.ACTIVE_ANOMALIES
        /\ DATA_POINTS_RECEIVED = pre.DATA_POINTS_RECEIVED + 1

\* C2 witness: a payload missing just one field was rejected while the
\* buffer and the active set held readings.
C2_Witness ==
    /\ pc[SeqThread] = "returned_400"
    /\ cur.data = [mapping |-> TRUE, keys |-> required_fields \ {"vibration"}]
    /\ pre.current_data # <<>>
    /\ pre.anomalies # <<>>

\* C3: every ingest call, valid or not, adds exactly 1 to the
\* readings-received counter, and adds 1 to the anomalies-detected counter
\* exactly when its reading is classified anomalous; no step of a call lowers
\* either counter.
C3_Counters ==
    /\ [](Returned =>
            /\ DATA_POINTS_RECEIVED = pre.DATA_POINTS_RECEIVED + 1
            /\ ANOMALIES_DETECTED =
                 pre.ANOMALIES_DETECTED + (IF cur.is_anomaly THEN 1 ELSE 0))
    /\ [][/\ DATA_POINTS_RECEIVED' >= DATA_POINTS_RECEIVED
          /\ ANOMALIES_DETECTED' >= ANOMALIES_DETECTED]_vars

\* C3 witness: a call has returned whose reading was the second one counted
\* as anomalous, among more than two requests received.
C3_Witness ==
    /\ Returned
    /\ cur.is_anomaly
    /\ ANOMALIES_DETECTED = 2
    /\ DATA_POINTS_RECEIVED > 2

\* C4: when a reading A was ingested and classified anomalous and the next
\* ingest B is classified normal, B removes A from the active set, which
\* returns it and the gauge to what they were before A, if B's timestamp equals
\* A's; otherwise the set is as B found it, with A its most recent entry.
C4_FlapClearing ==
    ( /\ Returned /\ Recorded /\ ~cur.is_anomaly
      /\ last.recorded /\ last.frame.is_anomaly ) =>
        IF cur.timestamp = last.frame.timestamp
        THEN /\ anomalies = last.anomalies_before
             /\ ACTIVE_ANOMALIES = last.gauge_before
             /\ ACTIVE_ANOMALIES = Len(last.anomalies_before)
        ELSE /\ anomalies = pre.anomalies
             /\ anomalies # <<>>
             /\ anomalies[Len(anomalies)] = Reading(last.frame)
             /\ ACTIVE_ANOMALIES = Len(anomalies)

\* C4 witness: a normal reading with the timestamp of the anomaly before it
\* has cleared that anomaly, leaving an older one active.
C4_Witness ==
    /\ Returned /\ Recorded /\ ~cur.is_anomaly
    /\ last.recorded /\ last.frame.is_anomaly
    /\ cur.timestamp = last.frame.timestamp
    /\ last.anomalies_before # <<>>

\* A payload the pipeline is meant to accept: a mapping with all four fields.
Valid(data) == data.mapping /\ required_fields \subseteq data.keys

\* C5: while no model is loaded every valid ingest succeeds with
\* is_anomaly = false and status "Model not loaded", its reading is appended
\* to the history buffer, and the active set and the anomalies-detected
\* counter do not grow.
C5_FailOpenNoModel ==
    model = "None" =>
        /\ anomalies = <<>>
        /\ ANOMALIES_DETECTED = 0
        /\ Returned /\ Valid(cur.data) =>
             /\ pc[SeqThread] = "returned_200"
             /\ ~cur.is_anomaly
             /\ cur.status = "Model not loaded"
             /\ Recorded
             /\ current_data # <<>>
             /\ current_data[Len(current_data)] = Reading(cur)
             /\ Len(anomalies) <= Len(pre.anomalies)
             /\ ANOMALIES_DETECTED = pre.ANOMALIES_DETECTED

\* C5 witness: without a model a valid ingest succeeded on a full buffer.
C5_Witness ==
    /\ model = "None"
    /\ pc[SeqThread] = "returned_200"
    /\ Valid(cur.data)
    /\ Len(pre.current_data) = MAX_DATA_POINTS

\* C6: with a model loaded the classifier answers (true, "Detected") exactly
\* when the model's verdict is -1 and (false, "Normal") when it is 1; when
\* predict raises it answers (false, "Prediction error"), the ingest succeeds,
\* the reading is in the history as non-anomalous and is not added to the
\* active set.
C6_Classify ==
    ( model = "loaded" /\ Returned /\ cur.prediction # NoPrediction ) =>
        /\ cur.is_anomaly <=> (~cur.prediction.raises /\ cur.prediction.value = -1)
        /\ cur.is_anomaly => cur.status = "Detected"
        /\ (~cur.prediction.raises /\ cur.prediction.value = 1) =>
               cur.status = "Normal"
        /\ cur.prediction.raises =>
             /\ cur.status = "Prediction error"
             /\ pc[SeqThread] = "returned_200"
             /\ Recorded
             /\ current_data[Len(current_data)] = Reading(cur)
             /\ ~current_data[Len(current_data)].is_anomaly
             /\ \/ anomalies = pre.anomalies
                \/ anomalies = pop(pre.anomalies)
             /\ ANOMALIES_DETECTED = pre.ANOMALIES_DETECTED

\* C6 witness: predict raised while an anomaly was active, and the ingest
\* returned.
C6_Witness ==
    /\ model = "loaded"
    /\ Returned
    /\ cur.prediction.raises
    /\ pre.anomalies # <<>>

\* C7: no exception escapes receive_sensor_data: a failure in the timestamp,
\* classify or record steps is reported as an outcome, and the history buffer
\* and the active set are then as they were before the call.
C7_NoExceptionEscapes ==
    /\ pc[SeqThread] # "raised"
    /\ (Returned /\ pc[SeqThread] # "returned_200") =>
           current_data = pre.current_data /\ anomalies = pre.anomalies

\* The positions of a call between its append to current_data and its last
\* update of the active set and the gauge.
RecordPhase ==
    {"check_len", "pop_oldest", "anomaly_append", "anomaly_inc", "flap_len",
     "flap_last", "flap_pop", "gauge_len", "gauge_set"}

\* C8: no two calls of receive_sensor_data are at the same time between their
\* append to the history buffer and their final update of the active set and
\* gauge.
C8_RecordPhaseSerialized ==
    Cardinality({t \in Threads : pc[t] \in RecordPhase}) <= 1

\* C9: every history snapshot get_data returns has at most MAX_DATA_POINTS
\* readings: a reader never sees the buffer between an append and its eviction.
C9_SnapshotNeverMidEviction ==
    \A i \in 1..Len(responses) :
        Len(responses[i].recent_data) <= MAX_DATA_POINTS

\* C10: whenever no ingest call is in progress the active-anomaly gauge equals
\* the length of the active anomaly set, whatever the interleaving of the
\* ingests before.
C10_GaugeIsActiveCount ==
    Idle => ACTIVE_ANOMALIES = Len(anomalies)

\* C11: read oldest to newest, the history buffer has non-decreasing
\* timestamps in every reachable state, also when ingest calls run
\* concurrently (the clock itself never goes back).
C11_TimestampsNonDecreasing ==
    \A i \in 1..(Len(current_data) - 1) :
        current_data[i].timestamp <= current_data[i + 1].timestamp

StrictlyIncreasing(log) ==
    \A i \in 1..(Len(log) - 1) : log[i].timestamp < log[i + 1].timestamp

====
